---- MODULE Spec2Model ----
(***************************************************************************)
(* NodeGLSPClient (packages/protocol/src/client-server-protocol/node/      *)
(* node-glsp-client.ts): the in-process GLSP client.  The model follows    *)
(* the JavaScript run-to-completion semantics of the class:                *)
(*   - every public method is synchronous (stop() is an async function     *)
(*     without an await, so its body also runs in one go);                 *)
(*   - the reaction of the start race to a resolved serverDeferred is a    *)
(*     promise job: it runs after the calling code of configureServer()/   *)
(*     start() has finished, so other calls can come in between;           *)
(*   - the startup timer is a task of its own; the jobs it queues (the     *)
(*     rejection of the race and the catch handler) run before any other   *)
(*     task, so firing and the catch handler form one step;                *)
(*   - GLSPServer.shutdown() and the action message handlers are code of   *)
(*     the caller that runs inside stop() and proxy.process(): ctx records *)
(*     which of them is on the call stack, and the calls they may make     *)
(*     back into the client are the actions enabled in that ctx.  A        *)
(*     handler registers and disposes handlers and returns normally.       *)
(***************************************************************************)
EXTENDS Integers, Sequences, FiniteSets, TLC

\* ---------------------------------------------------------------- bounds
NumServers == 2
NumHandlers == 2
MaxStopCalls == 2
MaxRequests == 3
MaxInputLen == 2

\* ------------------------------------------------------------- constants
DefaultStartupTimeout == 1500

Servers == 1 .. NumServers
Handlers == 1 .. NumHandlers
NoServer == 0
Timeouts == {DefaultStartupTimeout, 50}

ClientState == {"Initial", "Starting", "StartFailed", "Running", "Stopping", "Stopped", "ServerError"}

ServerOps == {"initializeServer", "initializeClientSession", "disposeClientSession",
              "shutdownServer", "sendActionMessage"}

VARIABLES
    state,                  \* this.state
    _server,                \* this._server (NoServer = undefined)
    serverDeferred,         \* this.serverDeferred: NoServer = pending, else the server it resolved with
    onStartDeferred,        \* this.onStartDeferred: "pending" | "resolved" | "rejected"
    onStopDeferred,         \* this.onStopDeferred: "pending" | "resolved"
    startupTimeout,         \* this.startupTimeout
    actionMessageHandlers,  \* this.actionMessageHandlers
    race,                   \* Promise.race of start(): "unset" | "waiting" | "fulfilled" | "attached" | "timedOut"
    timer,                  \* setTimeout of start(): "unarmed" | "armed" | "fired"
    timerMs,                \* the delay the timer was armed with (0 = unarmed)
    ctx,                    \* call stack: "top" | "shutdown" (inside stop()) | "handler" (inside proxy.process)
                            \*   | "shutdownHandler" (inside a proxy.process called by shutdown())
    stopPromises,           \* the promises returned by the stop() calls so far
    shutdownCalls,          \* number of _server.shutdown() calls made by stop()
    raceSetups,             \* number of Promise.race set up by start()
    bindingStores,          \* number of assignments to this._server
    startSettles,           \* number of effective settlements of onStartDeferred
    disposables,            \* handlers for which onActionMessage returned a Disposable
    snapshot,               \* the copy [...this.actionMessageHandlers] of the running dispatch (<<>> = none)
    idx,                    \* index of the handler being invoked by forEach (0 = none)
    received,               \* handlers invoked so far by the running dispatch, in order
    lastOp,                 \* the last call made on the client, how it ended, and the server
                            \*   it was forwarded to (for configureServer: the server it was given)
    isWaitingForResponse,   \* AiAssistantUi.isWaitingForResponse
    messageInput,           \* AiAssistantUi.messageInput.value, a sequence of characters
    chatBox,                \* AiAssistantUi.chatBox: the labels of the messages added, in order
    requests,               \* the promises of actionDispatcher.request(...) made so far: how each
                            \*   is settled, and whether a cancel was dispatched while it was pending
    cancelsSent             \* number of AiAssistantCancelAction dispatched

lifecycleVars == <<state, _server, serverDeferred, onStartDeferred, onStopDeferred, race, timer, timerMs>>
historyVars == <<stopPromises, shutdownCalls, raceSetups, bindingStores, startSettles>>
routerVars == <<actionMessageHandlers, disposables, snapshot, idx, received>>
clientVars == <<lifecycleVars, historyVars, routerVars, startupTimeout, ctx, lastOp>>
uiVars == <<isWaitingForResponse, messageInput, chatBox, requests, cancelsSent>>
vars == <<clientVars, uiVars>>

Op(name, result) == [op |-> name, result |-> result, to |-> NoServer]

\* A configureServer(server) call, with its argument.
Configured(result, server) == [op |-> "configureServer", result |-> result, to |-> server]

\* A call that checkedServer passed on to the server.
Forwarded(name, server) == [op |-> name, result |-> "forwarded", to |-> server]

\* ------------------------------------------------------ helper operators

\* Variant of Settle: a later resolve/reject replaces the settled value.
SettleOverwrite(d, pending, v) == v

\* A promise settles once: resolve/reject of a settled Deferred is a no-op.
Settle(d, pending, v) == IF d = pending THEN v ELSE d

\* distinctAdd(array, value): push the value unless the array includes it.
distinctAdd(array, value) ==
    IF \E i \in 1 .. Len(array) : array[i] = value THEN array ELSE Append(array, value)

\* remove(array, value): splice out the first occurrence of the value.
remove(array, value) ==
    IF \E i \in 1 .. Len(array) : array[i] = value
    THEN LET k == CHOOSE i \in 1 .. Len(array) :
                      array[i] = value /\ \A j \in 1 .. (i - 1) : array[j] # value
         IN  SubSeq(array, 1, k - 1) \o SubSeq(array, k + 1, Len(array))
    ELSE array

\* Variant of raceOnAttach: a late attachment re-opens a race the timer has won.
raceOnAttachLate(r) == IF r \in {"waiting", "timedOut"} THEN "fulfilled" ELSE r

\* Promise.race after serverDeferred resolved: an open race is won by the
\* attachment, a race that is settled (or not set up) stays as it is.
raceOnAttach(r) == IF r = "waiting" THEN "fulfilled" ELSE r

\* Variant of IterationTarget: forEach runs over the live handler array.
IterationTargetLive(copy, live) == live

\* The array forEach iterates in proxy.process: the copy, not the live array.
IterationTarget(copy, live) == copy

\* Variant of checkState: the check passes whenever a start has succeeded.
checkStateLax(s) == s \in {"Running", "Stopping", "Stopped"}

\* checkState(): TRUE when the call may proceed.
checkState(s) == s = "Running"

\* Variant of configureIsError: configureServer() never refuses.
configureIsErrorNever(s) == FALSE

\* The guard of configureServer(): TRUE when it throws.
configureIsError(s) == s = "Running"

\* Variant of startDelay: the timer is armed with the default delay.
startDelayDefault(configured) == DefaultStartupTimeout

\* The delay start() arms the timer with: this.startupTimeout as it is then.
startDelay(configured) == configured

\* Variant of registered: onActionMessage pushes the handler.
registeredPush(array, handler) == Append(array, handler)

\* The handler array after onActionMessage(handler): distinctAdd, not push.
registered(array, handler) == distinctAdd(array, handler)

\* Variant of finallyState: the finally block leaves the state at Stopping.
finallyStateStopping == "Stopping"

\* The state the finally block of stop() assigns.
finallyState == "Stopped"

\* The guard of stop(): TRUE when stop() only returns onStop().
stopIsNoop(s) == s = "Stopped" \/ s = "Stopping"

\* Variant of startIsNoop: a failed start may be started again.
startIsNoopRetry(s) == s \notin {"Initial", "StartFailed"}

\* The guard of start(): TRUE when start() only returns the started promise.
startIsNoop(s) == s # "Initial"

\* Variant of thenState: the then-handler leaves the state at Starting.
thenStateStale == "Starting"

\* The state the then-handler of the start race assigns.
thenState == "Running"

\* Variant of catchState: the catch-handler reports the session as running.
catchStateRunning == "Running"

\* Variant of catchState: the catch-handler reports the session as stopped.
catchStateStopped == "Stopped"

\* The state the catch-handler of the start race assigns.
catchState == "StartFailed"

\* The outcome of the promise of a stop() call whose shutdown() call ended as given.
stopResult(shutdownOutcome) == IF shutdownOutcome = "throws" THEN "rejected" ELSE "resolved"

\* The outcome of a promise returned by stop(): "onStop" follows onStopDeferred.
StopOutcome(p) == IF p = "onStop" THEN onStopDeferred ELSE p

\* ------------------------------------------------------------------ Init
Init ==
    /\ state = "Initial"
    /\ _server = NoServer
    /\ serverDeferred = NoServer
    /\ onStartDeferred = "pending"
    /\ onStopDeferred = "pending"
    /\ startupTimeout = DefaultStartupTimeout
    /\ actionMessageHandlers = <<>>
    /\ race = "unset"
    /\ timer = "unarmed"
    /\ timerMs = 0
    /\ ctx = "top"
    /\ stopPromises = <<>>
    /\ shutdownCalls = 0
    /\ raceSetups = 0
    /\ bindingStores = 0
    /\ startSettles = 0
    /\ disposables = {}
    /\ snapshot = <<>>
    /\ idx = 0
    /\ received = <<>>
    /\ lastOp = Op("new", "ok")
    /\ isWaitingForResponse = FALSE
    /\ messageInput = <<>>
    /\ chatBox = <<"Assistant">>
    /\ requests = <<>>
    /\ cancelsSent = 0

\* Calls into the client are made by the driver (ctx = "top") or by the
\* server's shutdown() while stop() is calling it (ctx = "shutdown" with a
\* server; without one nothing runs between the two halves of stop()).
CallerCtx == ctx = "top" \/ (ctx = "shutdown" /\ _server # NoServer)

\* --------------------------------------------------------------- actions

\* configureServer(server)
ConfigureServer(s) ==
    /\ CallerCtx
    /\ IF configureIsError(state)
       THEN /\ lastOp' = Configured("usageError", s)
            /\ UNCHANGED <<serverDeferred, race>>
       ELSE /\ serverDeferred' = Settle(serverDeferred, NoServer, s)
            /\ race' = raceOnAttach(race)
            /\ lastOp' = Configured("ok", s)
    /\ UNCHANGED <<state, _server, onStartDeferred, onStopDeferred, timer, timerMs,
                   historyVars, routerVars, startupTimeout, ctx>>
    /\ UNCHANGED uiVars

\* start()
Start ==
    /\ CallerCtx
    /\ lastOp' = Op("start", "promise")
    /\ IF startIsNoop(state)
       THEN UNCHANGED <<state, timer, timerMs, race, raceSetups>>
       ELSE /\ state' = "Starting"
            /\ timer' = "armed"
            /\ timerMs' = startDelay(startupTimeout)
            /\ race' = IF serverDeferred # NoServer THEN "fulfilled" ELSE "waiting"
            /\ raceSetups' = raceSetups + 1
    /\ UNCHANGED <<_server, serverDeferred, onStartDeferred, onStopDeferred,
                   stopPromises, shutdownCalls, bindingStores, startSettles,
                   routerVars, startupTimeout, ctx>>
    /\ UNCHANGED uiVars

\* The then-handler of the start race: the server was attached first.
RaceThen ==
    /\ ctx = "top"
    /\ race = "fulfilled"
    /\ race' = "attached"
    /\ _server' = serverDeferred
    /\ bindingStores' = bindingStores + 1
    /\ state' = thenState
    /\ onStartDeferred' = Settle(onStartDeferred, "pending", "resolved")
    /\ startSettles' = IF onStartDeferred = "pending" THEN startSettles + 1 ELSE startSettles
    /\ UNCHANGED <<serverDeferred, onStopDeferred, timer, timerMs,
                   stopPromises, shutdownCalls, raceSetups,
                   routerVars, startupTimeout, ctx, lastOp>>
    /\ UNCHANGED uiVars

\* The startup timer fires; when the race is still open the catch-handler runs.
TimerFire ==
    /\ ctx = "top"
    /\ timer = "armed"
    /\ race # "fulfilled"
    /\ timer' = "fired"
    /\ IF race = "waiting"
       THEN /\ race' = "timedOut"
            /\ state' = catchState
            /\ onStartDeferred' = Settle(onStartDeferred, "pending", "rejected")
            /\ startSettles' = IF onStartDeferred = "pending" THEN startSettles + 1 ELSE startSettles
       ELSE UNCHANGED <<race, state, onStartDeferred, startSettles>>
    /\ UNCHANGED <<_server, serverDeferred, onStopDeferred, timerMs,
                   stopPromises, shutdownCalls, raceSetups, bindingStores,
                   routerVars, startupTimeout, ctx, lastOp>>
    /\ UNCHANGED uiVars

\* stop(), up to the call of this._server.shutdown()
Stop ==
    /\ CallerCtx
    /\ Len(stopPromises) < MaxStopCalls
    /\ IF stopIsNoop(state)
       THEN /\ stopPromises' = Append(stopPromises, "onStop")
            /\ lastOp' = Op("stop", "onStop")
            /\ UNCHANGED <<state, ctx, shutdownCalls>>
       ELSE /\ state' = "Stopping"
            /\ ctx' = "shutdown"
            /\ stopPromises' = Append(stopPromises, "running")
            /\ shutdownCalls' = IF _server # NoServer THEN shutdownCalls + 1 ELSE shutdownCalls
            /\ lastOp' = Op("stop", "running")
    /\ UNCHANGED <<_server, serverDeferred, onStartDeferred, onStopDeferred, race, timer, timerMs,
                   raceSetups, bindingStores, startSettles,
                   routerVars, startupTimeout>>
    /\ UNCHANGED uiVars

\* stop(), the finally block and the settlement of the promise of the call;
\* outcome is how this._server.shutdown() ended ("none": there was no server).
StopFinally(outcome) ==
    /\ ctx = "shutdown"
    /\ IF _server = NoServer THEN outcome = "none" ELSE outcome \in {"returns", "throws"}
    /\ state' = finallyState
    /\ onStopDeferred' = Settle(onStopDeferred, "pending", "resolved")
    /\ stopPromises' = [i \in 1 .. Len(stopPromises) |->
                          IF stopPromises[i] = "running" THEN stopResult(outcome)
                          ELSE stopPromises[i]]
    /\ ctx' = "top"
    /\ lastOp' = Op("stop", stopResult(outcome))
    /\ UNCHANGED <<_server, serverDeferred, onStartDeferred, race, timer, timerMs,
                   shutdownCalls, raceSetups, bindingStores, startSettles,
                   routerVars, startupTimeout>>
    /\ UNCHANGED uiVars

\* initializeServer, initializeClientSession, disposeClientSession,
\* shutdownServer, sendActionMessage: this.checkedServer.<operation>(...)
ServerOp(op) ==
    /\ CallerCtx
    /\ lastOp' = IF ~checkState(state) THEN Op(op, "usageError")
                 ELSE IF _server = NoServer THEN Op(op, "noServerError")
                 ELSE Forwarded(op, _server)
    /\ UNCHANGED <<lifecycleVars, historyVars, routerVars, startupTimeout, ctx>>
    /\ UNCHANGED uiVars

\* setStartupTimeout(ms)
SetStartupTimeout(ms) ==
    /\ CallerCtx
    /\ startupTimeout' = ms
    /\ lastOp' = Op("setStartupTimeout", "ok")
    /\ UNCHANGED <<lifecycleVars, historyVars, routerVars, ctx>>
    /\ UNCHANGED uiVars

\* A dispatch of proxy.process is running: one of its handlers is on the call stack.
InDispatch == ctx \in {"handler", "shutdownHandler"}

\* Handlers are registered and disposed by the driver, by shutdown() or by a
\* handler that is being invoked by proxy.process.
RouterCtx == CallerCtx \/ InDispatch

\* Variant of processAllowed: proxy.process checks the state like checkedServer.
processAllowedRunning(s) == s = "Running"

\* proxy.process looks at the handlers only, never at the state.
processAllowed(s) == TRUE

\* onActionMessage(handler)
OnActionMessage(h) ==
    /\ RouterCtx
    /\ actionMessageHandlers' = registered(actionMessageHandlers, h)
    /\ disposables' = disposables \cup {h}
    /\ lastOp' = Op("onActionMessage", "disposable")
    /\ UNCHANGED <<lifecycleVars, historyVars, snapshot, idx, received, startupTimeout, ctx>>
    /\ UNCHANGED uiVars

\* dispose() of a Disposable returned by onActionMessage(handler)
Dispose(h) ==
    /\ RouterCtx
    /\ h \in disposables
    /\ actionMessageHandlers' = remove(actionMessageHandlers, h)
    /\ lastOp' = Op("dispose", "ok")
    /\ UNCHANGED <<lifecycleVars, historyVars, disposables, snapshot, idx, received,
                   startupTimeout, ctx>>
    /\ UNCHANGED uiVars

\* proxy.process(message), up to the invocation of the first handler; with
\* no handler it warns and returns.
Process ==
    /\ CallerCtx
    /\ processAllowed(state)
    /\ IF Len(actionMessageHandlers) = 0
       THEN /\ lastOp' = Op("process", "dropped")
            /\ UNCHANGED <<snapshot, idx, received, ctx>>
       ELSE /\ snapshot' = actionMessageHandlers
            /\ idx' = 1
            /\ received' = <<actionMessageHandlers[1]>>
            /\ ctx' = IF ctx = "top" THEN "handler" ELSE "shutdownHandler"
            /\ lastOp' = Op("process", "running")
    /\ UNCHANGED <<lifecycleVars, historyVars, actionMessageHandlers, disposables, startupTimeout>>
    /\ UNCHANGED uiVars

\* The handler invoked by forEach returns: forEach invokes the next one, or
\* proxy.process returns.
HandlerReturn ==
    /\ InDispatch
    /\ LET target == IterationTarget(snapshot, actionMessageHandlers)
       IN  IF idx < Len(target)
           THEN /\ idx' = idx + 1
                /\ received' = Append(received, target[idx + 1])
                /\ UNCHANGED <<snapshot, ctx, lastOp>>
           ELSE /\ idx' = 0
                /\ received' = <<>>
                /\ snapshot' = <<>>
                /\ ctx' = IF ctx = "handler" THEN "top" ELSE "shutdown"
                /\ lastOp' = Op("process", "delivered")
    /\ UNCHANGED <<lifecycleVars, historyVars, actionMessageHandlers, disposables, startupTimeout>>
    /\ UNCHANGED uiVars

\* The calls and events of the lifecycle.
NextLifecycle ==
    \/ \E s \in Servers : ConfigureServer(s)
    \/ Start
    \/ RaceThen
    \/ TimerFire
    \/ Stop
    \/ \E outcome \in {"none", "returns", "throws"} : StopFinally(outcome)
    \/ \E op \in ServerOps : ServerOp(op)
    \/ \E ms \in Timeouts : SetStartupTimeout(ms)

\* The calls and events of the message routing.
NextRouter ==
    \/ \E h \in Handlers : OnActionMessage(h)
    \/ \E h \in Handlers : Dispose(h)
    \/ Process
    \/ HandlerReturn

Next == NextLifecycle \/ NextRouter

Spec == Init /\ [][Next]_vars

\* The lifecycle on its own (no inbound dispatch is running, so nothing but a
\* running stop() delays the promise job and the timer), with the scheduling
\* of the event loop: a queued promise job runs, an armed timer fires, and
\* the shutdown() called by stop() returns or throws.
FairSpec ==
    /\ Init
    /\ [][NextLifecycle]_vars
    /\ WF_vars(TimerFire)
    /\ WF_vars(RaceThen)
    /\ WF_vars(\E outcome \in {"none", "returns", "throws"} : StopFinally(outcome))

TypeOK ==
    /\ state \in ClientState
    /\ _server \in Servers \cup {NoServer}
    /\ serverDeferred \in Servers \cup {NoServer}
    /\ onStartDeferred \in {"pending", "resolved", "rejected"}
    /\ onStopDeferred \in {"pending", "resolved"}
    /\ startupTimeout \in Timeouts
    /\ race \in {"unset", "waiting", "fulfilled", "attached", "timedOut"}
    /\ timer \in {"unarmed", "armed", "fired"}
    /\ ctx \in {"top", "shutdown", "handler", "shutdownHandler"}
    /\ shutdownCalls \in 0 .. MaxStopCalls

\* ============================================================ AiAssistantUi

\* The characters of the message input: a blank and a letter.
Chars == {" ", "a"}

\* The values the user can give the message input.
InputValues == UNION {[1 .. n -> Chars] : n \in 0 .. MaxInputLen}

RECURSIVE trimStart(_)
\* String.prototype.trim, the leading blanks.
trimStart(s) == IF s # <<>> /\ Head(s) = " " THEN trimStart(Tail(s)) ELSE s

RECURSIVE trimEnd(_)
\* String.prototype.trim, the trailing blanks.
trimEnd(s) == IF s # <<>> /\ s[Len(s)] = " " THEN trimEnd(SubSeq(s, 1, Len(s) - 1)) ELSE s

\* this.messageInput.value.trim()
trim(s) == trimEnd(trimStart(s))

\* The value setWaiting() gives isWaitingForResponse.
setWaiting == TRUE

\* The value unsetWaiting() gives isWaitingForResponse.
unsetWaiting == FALSE

\* The requests whose promise is not settled.
Pending == {i \in 1 .. Len(requests) : requests[i].settled = "no"}

\* The requests that were sent and have neither been answered nor cancelled.
Outstanding == {i \in Pending : ~requests[i].cancelled}

\* sendMessageToAssistant()
sendMessageToAssistant ==
    IF trim(messageInput) # <<>>
    THEN /\ Len(requests) < MaxRequests
         /\ messageInput' = <<>>
         /\ chatBox' = Append(chatBox, "You")
         /\ isWaitingForResponse' = setWaiting
         /\ requests' = Append(requests, [settled |-> "no", cancelled |-> FALSE])
         /\ UNCHANGED cancelsSent
    ELSE UNCHANGED uiVars

\* cancelRequest(): the cancel action names no request, so it cancels every
\* request that is pending.
cancelRequest ==
    /\ cancelsSent' = cancelsSent + 1
    /\ requests' = [i \in 1 .. Len(requests) |->
                      IF i \in Pending THEN [requests[i] EXCEPT !.cancelled = TRUE]
                      ELSE requests[i]]
    /\ isWaitingForResponse' = unsetWaiting
    /\ UNCHANGED <<messageInput, chatBox>>

\* The user edits the message input.
TypeInput(v) ==
    /\ messageInput' = v
    /\ UNCHANGED <<isWaitingForResponse, chatBox, requests, cancelsSent>>
    /\ UNCHANGED clientVars

\* The keydown listener of the message input, for the Enter key.
KeydownEnter ==
    /\ sendMessageToAssistant
    /\ UNCHANGED clientVars

\* handleButtonClick()
HandleButtonClick ==
    /\ IF isWaitingForResponse THEN cancelRequest ELSE sendMessageToAssistant
    /\ UNCHANGED clientVars

\* The promise of request i settles: the handler of its result or of its
\* rejection runs, whether or not a cancel was dispatched meanwhile.
RequestSettles(i, how) ==
    /\ i \in Pending
    /\ requests' = [requests EXCEPT ![i].settled = how]
    /\ chatBox' = Append(chatBox, "Assistant")
    /\ isWaitingForResponse' = unsetWaiting
    /\ UNCHANGED <<messageInput, cancelsSent>>
    /\ UNCHANGED clientVars

\* The events of the assistant UI.
UiNext ==
    \/ \E v \in InputValues : TypeInput(v)
    \/ KeydownEnter
    \/ HandleButtonClick
    \/ \E i \in 1 .. MaxRequests, how \in {"result", "rejection"} : RequestSettles(i, how)

UiSpec == Init /\ [][UiNext]_vars

UiTypeOK ==
    /\ isWaitingForResponse \in BOOLEAN
    /\ messageInput \in InputValues
    /\ Len(requests) <= MaxRequests
    /\ cancelsSent \in 0 .. MaxRequests

\* ================================================================ claims

\* The edges of the lifecycle graph.
Edges ==
    {<<"Initial", "Starting">>, <<"Starting", "Running">>, <<"Starting", "StartFailed">>,
     <<"Running", "Stopping">>, <<"Initial", "Stopping">>, <<"Starting", "Stopping">>,
     <<"StartFailed", "Stopping">>, <<"Stopping", "Stopped">>}

\* C1: every change of the session state is an edge of the lifecycle graph;
\* no edge leaves Stopped and Running is only entered from Starting.
C1_TransitionGraph == [][state' # state => <<state, state'>> \in Edges]_vars

\* C2: when the server is attached before the startup timer fires, the
\* attachment wins the race and the continuation eventually runs, sets
\* Running and resolves the started signal; a first configureServer() after
\* the timer has fired stores no binding, leaves the started signal rejected
\* and does not change the state.
C2_AttachVersusDeadline ==
    /\ [](race = "waiting" => serverDeferred = NoServer)
    /\ [](race = "attached" => onStartDeferred = "resolved" /\ _server = serverDeferred)
    /\ [](race = "timedOut" => onStartDeferred = "rejected" /\ _server = NoServer
                               /\ state \in {"StartFailed", "Stopping", "Stopped"})
    /\ [][race = "fulfilled" /\ race' # race =>
            race' = "attached" /\ state' = "Running" /\ onStartDeferred' = "resolved"]_vars
    /\ race = "fulfilled" ~> (state = "Running" /\ onStartDeferred = "resolved")
    /\ [][race = "timedOut" /\ serverDeferred' # serverDeferred =>
            UNCHANGED <<race, state, _server, onStartDeferred>>]_vars

\* Witness of C2: the timer fired first, configureServer() came afterwards and
\* the session is still StartFailed without a binding.
C2_Witness ==
    /\ race = "timedOut"
    /\ serverDeferred # NoServer
    /\ state = "StartFailed"
    /\ lastOp.op = "configureServer"
    /\ lastOp.result = "ok"

\* C3: stop() called N times invokes shutdown() at most once, resolves the
\* stopped signal once, and all promises returned by stop() that have
\* settled have the same outcome.
C3_StopOnce ==
    /\ shutdownCalls <= 1
    /\ \A i, j \in 1 .. Len(stopPromises) :
          (StopOutcome(stopPromises[i]) \in {"resolved", "rejected"}
           /\ StopOutcome(stopPromises[j]) \in {"resolved", "rejected"})
          => StopOutcome(stopPromises[i]) = StopOutcome(stopPromises[j])

\* C4: a failure of shutdown() during stop() is swallowed: no promise
\* returned by stop() is rejected, and once stop() has run to its end the
\* state is Stopped and the stopped signal is resolved.
C4_ShutdownFailureSwallowed ==
    /\ \A i \in 1 .. Len(stopPromises) : StopOutcome(stopPromises[i]) # "rejected"
    /\ (lastOp.op = "stop" /\ lastOp.result \in {"resolved", "rejected"})
          => (state = "Stopped" /\ onStopDeferred = "resolved")

\* C5: start() takes effect once: the state enters Starting only from
\* Initial, one race is set up, one binding is stored, and the started
\* signal settles once and keeps its outcome.
C5_StartIdempotent ==
    /\ [](raceSetups <= 1 /\ bindingStores <= 1 /\ startSettles <= 1)
    /\ [][state' = "Starting" /\ state # "Starting" => state = "Initial" /\ raceSetups = 0]_vars
    /\ [][onStartDeferred # "pending" => onStartDeferred' = onStartDeferred]_vars
    /\ [][lastOp' = Op("start", "promise") /\ lastOp' # lastOp /\ state # "Initial" =>
            UNCHANGED <<lifecycleVars, raceSetups, bindingStores, startSettles>>]_vars

\* Witness of C5: start() was called again after the started signal had
\* been rejected by the timer.
C5_Witness ==
    /\ lastOp = Op("start", "promise")
    /\ raceSetups = 1
    /\ onStartDeferred = "rejected"
    /\ state = "StartFailed"

\* C6: a server operation called while the state is not Running ends with
\* the usage error, forwards nothing to the server and changes neither the
\* state, the binding nor a signal.
C6_CheckedAccess ==
    [][(lastOp'.op \in ServerOps /\ lastOp' # lastOp /\ state # "Running") =>
          (lastOp'.result = "usageError" /\ lastOp'.to = NoServer /\ UNCHANGED lifecycleVars)]_vars

\* Witness of C6: sendActionMessage was refused on a stopped session that
\* still holds the server of its successful start.
C6_Witness ==
    /\ lastOp = Op("sendActionMessage", "usageError")
    /\ state = "Stopped"
    /\ _server # NoServer

\* The handlers of a handler array, as a set.
Range(array) == {array[i] : i \in 1 .. Len(array)}

\* C7: a dispatch invokes the handlers that were registered when it began,
\* each in turn, whatever the handlers register or unregister meanwhile: the
\* handlers invoked so far are the first idx handlers of the array as it was
\* at the begin, the dispatch ends only after the last of them, and a handler
\* that is not registered when a dispatch begins is not part of it.
C7_DispatchSnapshot ==
    /\ [](InDispatch =>
            /\ idx \in 1 .. Len(snapshot)
            /\ received = SubSeq(snapshot, 1, idx))
    /\ [][~InDispatch /\ InDispatch' =>
            snapshot' = actionMessageHandlers /\ received' = <<actionMessageHandlers[1]>>]_vars
    /\ [][InDispatch /\ InDispatch' => snapshot' = snapshot]_vars
    /\ [][InDispatch /\ ~InDispatch' => received = snapshot]_vars

\* Witness of C7: the second handler of the dispatch is being invoked although
\* it was unregistered while the first one ran, and a handler registered
\* meanwhile is not part of the dispatch.
C7_Witness ==
    /\ ctx = "handler"
    /\ idx = 2
    /\ received = snapshot
    /\ snapshot[2] \notin Range(actionMessageHandlers)

\* C8 as stated: the binding is set only while the state is Running or
\* Stopping (or Starting, right before Running), and is set when Running.
C8_BindingIffRunningOrStopping ==
    /\ _server # NoServer => state \in {"Starting", "Running", "Stopping"}
    /\ state = "Running" => _server # NoServer

\* C8 amended: the binding is absent in Initial, Starting and StartFailed and
\* present in Running; it is stored by the then-handler of the start race
\* and never cleared, so in Stopping and Stopped it is present exactly when
\* the attachment won the race.
C8_BindingStoredNeverCleared ==
    /\ [](state \in {"Initial", "Starting", "StartFailed"} => _server = NoServer)
    /\ [](state = "Running" => _server # NoServer)
    /\ [](_server # NoServer <=> race = "attached")
    /\ [][_server # NoServer => _server' = _server]_vars

\* Witness of C8: a session stopped after a successful start still holds its binding.
C8_Witness ==
    /\ state = "Stopped"
    /\ _server # NoServer
    /\ shutdownCalls = 1

\* C9: when start() set up the race and no server is configured, the timer
\* eventually fires, the started signal is rejected and the state is
\* StartFailed; after the timeout no further race or timer is set up.
C9_StartupTimeout ==
    /\ (timer = "armed" /\ serverDeferred = NoServer) ~>
          ((onStartDeferred = "rejected" /\ state = "StartFailed" /\ race = "timedOut")
           \/ serverDeferred # NoServer)
    /\ [][race = "timedOut" =>
            race' = "timedOut" /\ timer' = "fired" /\ raceSetups' = raceSetups
            /\ onStartDeferred' = "rejected"]_vars

\* Witness of C9: the timer fired with no server configured.
C9_Witness ==
    /\ race = "timedOut"
    /\ timer = "fired"
    /\ serverDeferred = NoServer
    /\ state = "StartFailed"
    /\ onStartDeferred = "rejected"

\* C10: once the state is Stopped it stays Stopped and no call is forwarded
\* to a server any more.
C10_StoppedIsInert ==
    [][state = "Stopped" =>
         state' = "Stopped" /\ (lastOp' # lastOp => lastOp'.result # "forwarded")]_vars

\* TRUE when no handler occurs twice in the array.
Distinct(array) == \A i, j \in 1 .. Len(array) : i # j => array[i] # array[j]

\* C11: the handler array never holds a handler twice, so a dispatch invokes
\* no handler twice; a registration either changes nothing or appends one
\* handler that was not registered; a disposal removes one handler and leaves
\* the others registered, in their order.
C11_SetSemantics ==
    /\ [](Distinct(actionMessageHandlers) /\ Distinct(snapshot) /\ Distinct(received))
    /\ [][Len(actionMessageHandlers') > Len(actionMessageHandlers) =>
            \E h \in Handlers \ Range(actionMessageHandlers) :
                actionMessageHandlers' = Append(actionMessageHandlers, h)]_vars
    /\ [][Len(actionMessageHandlers') < Len(actionMessageHandlers) =>
            \E k \in 1 .. Len(actionMessageHandlers) :
                actionMessageHandlers' =
                    [i \in 1 .. (Len(actionMessageHandlers) - 1) |->
                        IF i < k THEN actionMessageHandlers[i] ELSE actionMessageHandlers[i + 1]]]_vars
    /\ [][Len(actionMessageHandlers') = Len(actionMessageHandlers) =>
            actionMessageHandlers' = actionMessageHandlers]_vars

\* Witness of C11: a dispatch has invoked two handlers, each once, and the
\* running handler has called onActionMessage without the array growing
\* beyond the handlers there are.
C11_Witness ==
    /\ InDispatch
    /\ Len(received) = 2
    /\ received = snapshot
    /\ lastOp.op = "onActionMessage"
    /\ actionMessageHandlers = snapshot

\* C12: the started signal is settled by the handlers of the start race only,
\* in the step that assigns the state: it becomes resolved in a step that
\* leaves the state at Running and rejected in a step that leaves it at
\* StartFailed, and it is never settled while the state is Initial or Starting.
C12_StateBeforeStartedSignal ==
    /\ [](onStartDeferred = "resolved" =>
            race = "attached" /\ state \in {"Running", "Stopping", "Stopped"})
    /\ [](onStartDeferred = "rejected" =>
            race = "timedOut" /\ state \in {"StartFailed", "Stopping", "Stopped"})
    /\ [][(onStartDeferred = "pending" /\ onStartDeferred' = "resolved") =>
            (state' = "Running" /\ race' = "attached")]_vars
    /\ [][(onStartDeferred = "pending" /\ onStartDeferred' = "rejected") =>
            (state' = "StartFailed" /\ race' = "timedOut")]_vars
    /\ [][onStartDeferred # "pending" => onStartDeferred' = onStartDeferred]_vars

\* Witness of C12: the then-handler has resolved the started signal of a
\* start() and the state is observed as Running.
C12_Witness ==
    /\ onStartDeferred = "resolved"
    /\ state = "Running"
    /\ startSettles = 1
    /\ lastOp = Op("start", "promise")

\* C13: the stopped signal becomes resolved only in the finally block of a
\* stop(), that is after the shutdown() call of that stop() returned or threw
\* when a binding is stored, and in a step that leaves the state at Stopped;
\* it is never resolved while the state is Initial or Starting, and once
\* resolved it stays resolved.
C13_StoppedSignalAfterShutdown ==
    /\ [][(onStopDeferred = "pending" /\ onStopDeferred' = "resolved") =>
            /\ state = "Stopping"
            /\ ctx = "shutdown"
            /\ state' = "Stopped"
            /\ _server # NoServer => (shutdownCalls' >= 1 /\ lastOp'.result \in {"resolved", "rejected"})
            /\ \E i \in 1 .. Len(stopPromises) :
                 stopPromises[i] = "running" /\ stopPromises'[i] \in {"resolved", "rejected"}]_vars
    /\ [](onStopDeferred = "resolved" => state \notin {"Initial", "Starting"})
    /\ [](state = "Stopped" => onStopDeferred = "resolved")
    /\ [][onStopDeferred = "resolved" => onStopDeferred' = "resolved"]_vars

\* Witness of C13: a stop() whose shutdown() call threw has left the state at
\* Stopped and the stopped signal resolved.
C13_Witness ==
    /\ onStopDeferred = "resolved"
    /\ state = "Stopped"
    /\ lastOp = Op("stop", "rejected")
    /\ shutdownCalls = 1

\* C14: a configureServer() call made while the state is Running ends with
\* the usage error and changes neither the state, the stored binding, the
\* server-attached gate, the started or stopped signal, the race nor the timer.
C14_ConfigureWhileRunning ==
    [][(state = "Running" /\ lastOp'.op = "configureServer" /\ lastOp' # lastOp) =>
            /\ lastOp'.result = "usageError"
            /\ UNCHANGED <<lifecycleVars, historyVars, routerVars, startupTimeout, ctx>>]_vars

\* Witness of C14: configureServer() was called with another binding than the
\* stored one while Running and ended with the usage error.
C14_Witness ==
    /\ state = "Running"
    /\ lastOp.op = "configureServer"
    /\ lastOp.result = "usageError"
    /\ lastOp.to # _server
    /\ _server = serverDeferred

\* C15: the server-attached gate keeps the binding of the first
\* configureServer() call: once set it never changes, the binding the
\* then-handler stores and every forwarded operation reaches is that binding,
\* and a later configureServer() call made while not Running ends without an
\* error and changes nothing.
C15_FirstConfigureWins ==
    /\ [][serverDeferred # NoServer => serverDeferred' = serverDeferred]_vars
    /\ [][(serverDeferred = NoServer /\ serverDeferred' # NoServer) =>
            lastOp' = Configured("ok", serverDeferred')]_vars
    /\ [](_server # NoServer => _server = serverDeferred)
    /\ [](lastOp.result = "forwarded" => lastOp.to = serverDeferred)
    /\ [][(state # "Running" /\ serverDeferred # NoServer
             /\ lastOp'.op = "configureServer" /\ lastOp' # lastOp) =>
            /\ lastOp'.result = "ok"
            /\ UNCHANGED <<lifecycleVars, historyVars, routerVars, startupTimeout, ctx>>]_vars

\* Witness of C15: while the start race is decided but the session is not yet
\* Running, a second configureServer() call with another binding returned
\* without an error and the gate still holds the first binding.
C15_Witness ==
    /\ state = "Starting"
    /\ race = "fulfilled"
    /\ lastOp.op = "configureServer"
    /\ lastOp.result = "ok"
    /\ lastOp.to # serverDeferred
    /\ serverDeferred # NoServer

\* C16: the delay of the startup timer is the value startupTimeout had when
\* start() set the state to Starting; once armed the delay never changes, and
\* a setStartupTimeout() call changes the configured timeout only: neither
\* the state, the timer, the race nor a signal.
C16_TimeoutOnlyForFutureStarts ==
    /\ [][(timerMs = 0 /\ timerMs' # 0) =>
            /\ timerMs' = startupTimeout
            /\ state = "Initial"
            /\ state' = "Starting"
            /\ timer' = "armed"]_vars
    /\ [][timerMs # 0 => timerMs' = timerMs]_vars
    /\ [][startupTimeout' # startupTimeout =>
            /\ lastOp' = Op("setStartupTimeout", "ok")
            /\ UNCHANGED <<lifecycleVars, historyVars, routerVars, ctx>>]_vars

\* Witness of C16: while Starting with the timer armed, setStartupTimeout()
\* has set a timeout that differs from the delay of the armed timer.
C16_Witness ==
    /\ state = "Starting"
    /\ timer = "armed"
    /\ timerMs # startupTimeout
    /\ timerMs \in Timeouts
    /\ lastOp = Op("setStartupTimeout", "ok")

\* C17: whenever the state is Running a binding is stored, the step that
\* makes the state Running is the step that stores the binding, and no server
\* operation ever ends with the "no server configured" error.
C17_RunningHasBinding ==
    /\ [](state = "Running" => _server \in Servers)
    /\ [][(state # "Running" /\ state' = "Running") =>
            (_server' = serverDeferred /\ serverDeferred \in Servers
               /\ bindingStores' = bindingStores + 1)]_vars
    /\ [](lastOp.result # "noServerError")

\* Witness of C17: checked access passed both checks while Running and the
\* operation was forwarded to the stored binding.
C17_Witness ==
    /\ state = "Running"
    /\ lastOp.result = "forwarded"
    /\ lastOp.to = _server
    /\ lastOp.op = "initializeServer"

\* C18: whenever start() has returned the started signal, the signal is
\* eventually settled, under fair firing of the timer and fair running of the
\* race handlers and of the finally block of stop().
C18_StartSignalSettles ==
    (lastOp.op = "start") ~> (onStartDeferred # "pending")

\* C19: proxy.process can be called in every state and invokes the registered
\* handlers; with no handler registered it drops the message, raises no error
\* and changes nothing; and no step of proxy.process, of a handler, of
\* onActionMessage or of a disposal changes the state, the binding, the gate,
\* a signal, the race, the timer or the configured timeout.
C19_RouterIndependentOfLifecycle ==
    /\ [](CallerCtx => ENABLED Process)
    /\ [][(CallerCtx /\ lastOp'.op = "process" /\ lastOp' # lastOp) =>
            IF actionMessageHandlers = <<>>
            THEN /\ lastOp' = Op("process", "dropped")
                 /\ UNCHANGED <<lifecycleVars, historyVars, routerVars, startupTimeout, ctx>>
            ELSE /\ lastOp' = Op("process", "running")
                 /\ received' = <<actionMessageHandlers[1]>>
                 /\ snapshot' = actionMessageHandlers]_vars
    /\ [][(routerVars' # routerVars \/ InDispatch \/ InDispatch'
             \/ (lastOp'.op \in {"process", "onActionMessage", "dispose"} /\ lastOp' # lastOp)) =>
            UNCHANGED <<lifecycleVars, historyVars, startupTimeout>>]_vars
    /\ [](lastOp.op = "process" => lastOp.result \in {"dropped", "running", "delivered"})

\* Witness of C19: a dispatch started after the session was stopped has
\* delivered the message to every registered handler.
C19_Witness ==
    /\ state = "Stopped"
    /\ lastOp = Op("process", "delivered")
    /\ Len(actionMessageHandlers) = 2
    /\ ctx = "top"
    /\ shutdownCalls = 0

\* C20: isWaitingForResponse is true exactly when a request is outstanding
\* (sent, neither answered nor cancelled): the settlement of a request leaves
\* the flag set while a newer request is outstanding, and a cancel action is
\* dispatched only while a request is outstanding.
C20_WaitingIffOutstanding ==
    /\ [](isWaitingForResponse <=> Outstanding # {})
    /\ [][cancelsSent' # cancelsSent => Outstanding # {}]_vars

====
